---- MODULE Spec2Model ----
(***************************************************************************)
(* A model of src/main.py: the Cell agent, the Environment that owns the   *)
(* cells, and the Simulation driver with its name-keyed rule binding.      *)
(*                                                                         *)
(* Numbers.  The program computes with floats; the model keeps every       *)
(* quantity an integer by fixing a unit per quantity:                      *)
(*   - death_age is held in halves (death_age = 3 means 1.5), so that      *)
(*     "age >= death_age" is "2 * age >= death_age";                       *)
(*   - a sensor value s is held as s * 10 * GridSize, so that the bias 1   *)
(*     is 10 * GridSize, pos / grid_size is 10 * pos, the uniform draw is  *)
(*     a number of tenths times GridSize and the sine is a number of       *)
(*     tenths times GridSize;                                              *)
(*   - brain_dna entries are small integers: think() only reads the sign   *)
(*     of each row's product with the sensors.                             *)
(* pos and velocity are integer-valued in the program itself (both are     *)
(* rounded at creation).  sex and strength are never read after creation   *)
(* and are left out of the cell record.                                    *)
(***************************************************************************)
EXTENDS Integers, Sequences, FiniteSets, TLC

VARIABLES
    ncell,      \* params["n_cell"], drawn when Environment() reads it
    numsim,     \* params["num_sim"], drawn when a Simulation is made
    driver,     \* what was constructed: "none", "sim" (a Simulation), "env" (an
                \* Environment, by a caller), "cell" (a Cell, by a caller),
                \* "grid" (an Environment for get_grid), "ops" (a Cell handed
                \* to move() or think() as an argument)
    pc,         \* where the driver is
    cells,      \* Environment.cells; under "cell", the one Cell the caller made
    clock,      \* Environment.clock
    grid,       \* Environment.grid
    pos_map,    \* Environment.pos_map
    cellrule,   \* Environment.cellrule
    envattrs,   \* names bound on the Environment instance with setattr
    simrule,    \* Simulation.simrule[0], "" before it is resolved
    iter,       \* iterations of main's loop begun so far
    plots,      \* plotgrid() calls made by main
    dead,       \* main printed "Dead"
    ret,        \* main's return value, None before it returns
    err,        \* the exception that left Simulation.__init__ or main, if any
    last,       \* the last Environment operation run: name, result, broadcasts
                \* made and the pos_map handed to them
    ncontinue   \* update() calls that returned 1 so far

vars == <<ncell, numsim, driver, pc, cells, clock, grid, pos_map, cellrule,
          envattrs, simrule, iter, plots, dead, ret, err, last, ncontinue>>

----------------------------------------------------------------------------
(* Bounds of the model. *)

MaxCells == 1
MaxNumSim == 2
GridSize == 2
MaxVelocity == 1
MaxDeathAge == 3
MaxAge == 2
MaxClock == 1
MaxGridCells == 3
MaxSensor == 1

(* Program constants. *)

NumSensors == 5
NumActions == 4
Ended == 0
Continue == 1
MainStatus == 0

None == 0 - 1

----------------------------------------------------------------------------
(* Cell *)

Positions == (0 .. GridSize - 1) \X (0 .. GridSize - 1)

Velocities == -1 .. MaxVelocity

\* death_age in halves: 0 is 0, 1 is 0.5, 2 is 1, 3 is 1.5, ...
DeathAges == 0 .. MaxDeathAge

\* The uniform draw of update_sensors, in tenths.
RandTenths == {2, 8}

\* Weight matrices a cell may be created with: one row per action
\* (+x, +y, -x, -y), one column per sensor (bias, random, sine, x, y).
BrainList ==
    << << <<-1, 2, 0, 0, 0>>, <<1, 0, 0, 0, -2>>, <<0, 0, 1, 1, 0>>, <<1, -2, 0, 0, 0>> >>,
       << <<1, 0, 0, 0, 0>>, <<0, 0, 1, 0, 0>>, <<0, 0, 0, 0, 0>>, <<1, 0, 0, 0, 0>> >> >>

Zeros(n) == [k \in 1 .. n |-> 0]

\* Cell.__init__ with the draws of phys_dna, brain_dna and pos given.
Cell(d, v, b, p) ==
    [alive |-> TRUE, age |-> 0, death_age |-> d, velocity |-> v, brain_dna |-> b,
     pos |-> p, sensors |-> Zeros(NumSensors), actions |-> Zeros(NumActions)]

NewCells == {Cell(d, v, BrainList[b], p) :
                d \in DeathAges, v \in Velocities, b \in 1 .. Len(BrainList), p \in Positions}

Min(a, b) == IF a <= b THEN a ELSE b

Max(a, b) == IF a >= b THEN a ELSE b

\* np.maximum(np.minimum(x, grid_size - 1), 0)
Clamp(x) == Max(Min(x, GridSize - 1), 0)

move_unclamped(c) ==
    [c EXCEPT !.pos = <<c.pos[1] + (c.actions[1] - c.actions[3]) * c.velocity,
                        c.pos[2] + (c.actions[2] - c.actions[4]) * c.velocity>>]

move_crossed(c) ==
    [c EXCEPT !.pos = <<Clamp(c.pos[1] + (c.actions[1] - c.actions[2]) * c.velocity),
                        Clamp(c.pos[2] + (c.actions[3] - c.actions[4]) * c.velocity)>>]

move(c) ==
    [c EXCEPT !.pos = <<Clamp(c.pos[1] + (c.actions[1] - c.actions[3]) * c.velocity),
                        Clamp(c.pos[2] + (c.actions[2] - c.actions[4]) * c.velocity)>>]

\* 10 * sin(pi * t / 10), rounded, for t = 0 .. 19; the sine has period 20.
SinTable == <<0, 3, 6, 8, 10, 10, 10, 8, 6, 3, 0, -3, -6, -8, -10, -10, -10, -8, -6, -3>>

SinTenths(t) == SinTable[(t % 20) + 1]

\* pos_map is accepted and not read.
update_sensors(c, t, r) ==
    [c EXCEPT !.sensors = <<10 * GridSize, r * GridSize, SinTenths(t) * GridSize,
                            10 * c.pos[1], 10 * c.pos[2]>>]

RECURSIVE DotFrom(_, _, _)
DotFrom(w, s, j) == IF j > Len(w) THEN 0 ELSE w[j] * s[j] + DotFrom(w, s, j + 1)

Dot(w, s) == DotFrom(w, s, 1)

\* The sigmoid left unrounded: a value that is neither 0 nor 1.
RoundSigmoid_unrounded(z) == z

\* round(1 / (1 + exp(-z))): 1 when z > 0, and 0 when z <= 0 (the sigmoid of 0
\* is 0.5, which numpy rounds to the even 0).
RoundSigmoid(z) == IF z > 0 THEN 1 ELSE 0

think(c) ==
    [c EXCEPT !.actions = [k \in 1 .. NumActions |-> RoundSigmoid(Dot(c.brain_dna[k], c.sensors))]]

live_late_death(c, t, r) ==
    LET m == think(update_sensors(move(c), t, r))
        a == [m EXCEPT !.age = @ + 1]
    IN IF 2 * a.age > a.death_age THEN [a EXCEPT !.alive = FALSE] ELSE a

live_thinks_first(c, t, r) ==
    LET m == move(think(update_sensors(c, t, r)))
        a == [m EXCEPT !.age = @ + 1]
    IN IF 2 * a.age >= a.death_age THEN [a EXCEPT !.alive = FALSE] ELSE a

live(c, t, r) ==
    LET m == think(update_sensors(move(c), t, r))
        a == [m EXCEPT !.age = @ + 1]
    IN IF 2 * a.age >= a.death_age THEN [a EXCEPT !.alive = FALSE] ELSE a

----------------------------------------------------------------------------
(* Environment *)

\* The operations a Cell object resolves by name. Simulation.__init__ raises
\* at its first setattr on a cell, so no cell ever carries a bound rule and a
\* cell's callable attributes are those of the class.
CellOps == {"live", "move", "think", "update_sensors"}

\* One cell's share of call_all: the named method applied with the
\* broadcast's arguments (clock t; r is the cell's own uniform draw).
Invoke(attr, c, t, r) ==
    CASE attr = "live" -> live(c, t, r)
      [] attr = "move" -> move(c)
      [] attr = "think" -> think(c)
      [] attr = "update_sensors" -> update_sensors(c, t, r)

\* call_all: every cell's attribute is looked up first (a name that does not
\* resolve raises AttributeError before any cell is touched), then each
\* method is called in collection order.
call_all(cs, attr, t, rs) ==
    IF cs # <<>> /\ attr \notin CellOps
    THEN [exc |-> "AttributeError", cells |-> cs]
    ELSE [exc |-> "", cells |-> [i \in 1 .. Len(cs) |-> Invoke(attr, cs[i], t, rs[i])]]

\* f"{attr}" as update() hands self.cellrule to call_all: a string is itself;
\* the (name, function) pair that Simulation.__init__ stores formats to the
\* pair's repr, which names nothing.
BroadcastName(rule) == IF rule.pair THEN "('name', <function>)" ELSE rule.name

IsAlive(c) == c.alive

\* The body of update() past its guard: the cell rule is broadcast with
\* (clock, pos_map), the clock advances, think is broadcast, the dead are
\* dropped. An exception of the first broadcast leaves update() before the
\* clock is touched.
update_tick(cs, t, rule, rs) ==
    LET b1 == call_all(cs, BroadcastName(rule), t, rs)
        b2 == call_all(b1.cells, "think", t + 1, rs)
    IN IF b1.exc # ""
       THEN [ret |-> None, exc |-> b1.exc, cells |-> cs, clock |-> t,
             calls |-> <<BroadcastName(rule)>>]
       ELSE [ret |-> Continue, exc |-> "", cells |-> SelectSeq(b2.cells, IsAlive),
             clock |-> t + 1, calls |-> <<BroadcastName(rule), "think">>]

update_ticks_when_empty(cs, t, rule, rs) ==
    IF cs = <<>>
    THEN [ret |-> Ended, exc |-> "", cells |-> cs, clock |-> t + 1, calls |-> <<"think">>]
    ELSE update_tick(cs, t, rule, rs)

\* Environment.update on cells cs at clock t with cell rule `rule`; rs are
\* the cells' uniform draws.
update(cs, t, rule, rs) ==
    IF cs = <<>>
    THEN [ret |-> Ended, exc |-> "", cells |-> cs, clock |-> t, calls |-> <<>>]
    ELSE update_tick(cs, t, rule, rs)

ZeroGrid == [p \in Positions |-> 0]

PosMap(cs) == [i \in 1 .. Len(cs) |-> cs[i].pos]

Marked_counts(pm) == [p \in Positions |-> Cardinality({i \in 1 .. Len(pm) : pm[i] = p})]

Marked(pm) == [p \in Positions |-> IF \E i \in 1 .. Len(pm) : pm[i] = p THEN 1 ELSE 0]

get_grid_quiet(cs) ==
    [exc |-> "", grid |-> Marked(PosMap(cs)), pos_map |-> [list |-> TRUE, pairs |-> PosMap(cs)]]

get_grid_keeps_markers(cs) ==
    [exc |-> IF cs = <<>> THEN "ValueError" ELSE "",
     grid |-> [p \in Positions |-> Max(grid[p], Marked(PosMap(cs))[p])],
     pos_map |-> [list |-> TRUE, pairs |-> PosMap(cs)]]

\* Environment.get_grid: the grid is zeroed and pos_map rebuilt; unpacking
\* zip(*pos_map) into rows, cols raises ValueError when there is no cell,
\* after both assignments.
get_grid(cs) ==
    IF cs = <<>>
    THEN [exc |-> "ValueError", grid |-> ZeroGrid, pos_map |-> [list |-> TRUE, pairs |-> <<>>]]
    ELSE [exc |-> "", grid |-> Marked(PosMap(cs)),
          pos_map |-> [list |-> TRUE, pairs |-> PosMap(cs)]]

\* The pos_map argument of the call that update() hands to call_all: it is
\* evaluated, from self.pos_map, only when update() gets to its broadcast.
Passed(calls, pm) == IF calls = <<>> THEN [list |-> FALSE, pairs |-> <<>>] ELSE pm

NoCall == [op |-> "", ret |-> None, exc |-> "", calls |-> <<>>, pm |-> Passed(<<>>, 0)]

----------------------------------------------------------------------------
(* The rule registries: rules/sim_rules.py and rules/cell_rules.py, read with
   inspect.getmembers, which lists the functions of a module sorted by name. *)

SimRuleNames == <<"default", "step_cells">>

CellRuleNames == <<"default", "wander">>

\* The names a caller may ask for: the registered ones and one that is in
\* neither registry.
WantedNames == {"default", "step_cells", "wander", "nope"}

Range(f) == {f[i] : i \in DOMAIN f}

\* A simulation rule run on the Environment: "default" is update(); the other
\* rule broadcasts the per-cell compound step and does nothing else.
SimRuleRun(name, cs, t, rule, rs) ==
    IF name = "default"
    THEN update(cs, t, rule, rs)
    ELSE LET b == call_all(cs, "live", t, rs)
         IN [ret |-> None, exc |-> b.exc, cells |-> b.cells, clock |-> t, calls |-> <<"live">>]

----------------------------------------------------------------------------
(* Simulation *)

NoError == [exc |-> "", what |-> "", listed |-> <<>>]

Unresolved_lists_nothing(what, rules) ==
    [exc |-> "AttributeError", what |-> what, listed |-> <<>>]

\* raise AttributeError(f"{wanted} is not a valid ... ruleset. [{', '.join(r[0] for r in rules)}]")
Unresolved(what, rules) ==
    [exc |-> "AttributeError", what |-> what, listed |-> rules]

Attach_elsewhere(name) == {"simrule"}

\* setattr(self.e, self.simrule[0], self.simrule[1])
Attach(name) == {name}

\* Simulation.__init__(wsim, wcell) with n cells in the new Environment. The
\* loop over the cells reads self.cellrule, which Simulation never sets, so
\* its first turn raises AttributeError; with no cell the loop body never runs.
simulation_init(wsim, wcell, n) ==
    IF wsim \notin Range(SimRuleNames)
    THEN [err |-> Unresolved("simrule", SimRuleNames), simrule |-> "",
          envattrs |-> {}, cellrule |-> [pair |-> FALSE, name |-> "default"]]
    ELSE IF wcell \notin Range(CellRuleNames)
    THEN [err |-> Unresolved("cellrule", CellRuleNames), simrule |-> wsim,
          envattrs |-> Attach(wsim), cellrule |-> [pair |-> FALSE, name |-> "default"]]
    ELSE IF n > 0
    THEN [err |-> [exc |-> "AttributeError", what |-> "self.cellrule", listed |-> <<>>],
          simrule |-> wsim, envattrs |-> Attach(wsim),
          cellrule |-> [pair |-> FALSE, name |-> "default"]]
    ELSE [err |-> NoError, simrule |-> wsim, envattrs |-> Attach(wsim),
          cellrule |-> [pair |-> TRUE, name |-> wcell]]

\* The attributes of the Environment class and of every instance.
EnvAttrs == {"cellrule", "clock", "size", "ncell", "grid", "cells", "pos_map",
             "call_all", "update", "get_grid", "plotgrid"}

main_return_flags_dead(d) == IF d THEN 1 ELSE MainStatus

\* main's "return 0", reached from the end of the loop and from the break.
main_return(d) == MainStatus

----------------------------------------------------------------------------
(* The state machine *)

Init ==
    /\ ncell = 0
    /\ numsim = 0
    /\ driver = "none"
    /\ pc = "start"
    /\ cells = <<>>
    /\ clock = 0
    /\ grid = ZeroGrid
    /\ pos_map = [list |-> FALSE, pairs |-> <<>>]
    /\ cellrule = [pair |-> FALSE, name |-> "default"]
    /\ envattrs = {}
    /\ simrule = ""
    /\ iter = 0
    /\ plots = 0
    /\ dead = FALSE
    /\ ret = None
    /\ err = NoError
    /\ last = NoCall
    /\ ncontinue = 0

\* Environment(): clock 0, a zero grid, n_cell new cells, pos_map = 0 (the
\* integer: list is FALSE) and cellrule = "default".
EnvironmentInit ==
    /\ driver = "none"
    /\ \E n \in 0 .. MaxCells :
         /\ ncell' = n
         /\ \E cs \in [1 .. n -> NewCells] : cells' = cs
    /\ driver' = "env"
    /\ pc' = "ready"
    /\ UNCHANGED <<numsim, clock, grid, pos_map, cellrule, envattrs, simrule,
                   iter, plots, dead, ret, err, last, ncontinue>>

\* A caller's e.update(); the clock is capped at MaxClock.
EnvUpdate ==
    /\ driver = "env"
    /\ clock < MaxClock
    /\ \E rs \in [1 .. Len(cells) -> RandTenths] :
         LET u == update(cells, clock, cellrule, rs)
         IN /\ cells' = u.cells
            /\ clock' = u.clock
            /\ last' = [op |-> "update", ret |-> u.ret, exc |-> u.exc, calls |-> u.calls,
                        pm |-> Passed(u.calls, pos_map)]
            /\ ncontinue' = IF u.ret = Continue THEN ncontinue + 1 ELSE ncontinue
    /\ UNCHANGED <<ncell, numsim, driver, pc, grid, pos_map, cellrule, envattrs, simrule,
                   iter, plots, dead, ret, err>>

\* A caller's e.get_grid().
EnvGetGrid ==
    /\ driver = "env"
    /\ LET g == get_grid(cells)
       IN /\ grid' = g.grid
          /\ pos_map' = g.pos_map
          /\ last' = [op |-> "get_grid", ret |-> None, exc |-> g.exc, calls |-> <<>>,
                      pm |-> Passed(<<>>, pos_map)]
    /\ UNCHANGED <<ncell, numsim, driver, pc, cells, clock, cellrule, envattrs, simrule,
                   iter, plots, dead, ret, err, ncontinue>>

\* A caller's e.plotgrid(): the renderer reads grid and clock.
EnvPlotgrid ==
    /\ driver = "env"
    /\ last' = [op |-> "plotgrid", ret |-> None, exc |-> "", calls |-> <<>>,
                pm |-> Passed(<<>>, pos_map)]
    /\ UNCHANGED <<ncell, numsim, driver, pc, cells, clock, grid, pos_map, cellrule,
                   envattrs, simrule, iter, plots, dead, ret, err, ncontinue>>

\* Simulation(wsim, wcell). When __init__ raises, no Simulation object exists
\* and the Environment it had built is unreachable.
SimulationInit(wsim, wcell) ==
    /\ driver = "none"
    /\ driver' = "sim"
    /\ numsim' \in 0 .. MaxNumSim
    /\ \E n \in 0 .. MaxCells :
       LET s == simulation_init(wsim, wcell, n)
       IN /\ ncell' = n
          /\ err' = s.err
          /\ pc' = IF s.err.exc = "" THEN "constructed" ELSE "failed"
          /\ simrule' = s.simrule
          /\ envattrs' = IF s.err.exc = "" THEN s.envattrs ELSE {}
          /\ cellrule' = s.cellrule
    /\ UNCHANGED <<cells, clock, grid, pos_map, iter, plots, dead, ret, last, ncontinue>>

\* One turn of main's loop: the bound simulation rule, get_grid, plotgrid; a
\* ValueError prints "Dead" and breaks, any other exception leaves main.
MainIteration ==
    /\ driver = "sim"
    /\ pc \in {"constructed", "loop"}
    /\ iter < numsim
    /\ ~dead
    /\ iter' = iter + 1
    /\ IF simrule \notin (envattrs \cup EnvAttrs)
       THEN \* Environment.__getattr__ answers with a callback that calls the name
            /\ pc' = "crashed"
            /\ err' = [exc |-> "TypeError", what |-> "unresolved", listed |-> <<>>]
            /\ UNCHANGED <<cells, clock, grid, pos_map, plots, dead, last, ncontinue>>
       ELSE \E rs \in [1 .. Len(cells) -> RandTenths] :
              LET u == SimRuleRun(simrule, cells, clock, cellrule, rs)
                  g == get_grid(u.cells)
              IN /\ cells' = u.cells
                 /\ clock' = u.clock
                 /\ ncontinue' = IF u.ret = Continue THEN ncontinue + 1 ELSE ncontinue
                 /\ last' = [op |-> "simrule", ret |-> u.ret, exc |-> u.exc, calls |-> u.calls,
                             pm |-> Passed(u.calls, pos_map)]
                 /\ IF u.exc # ""
                    THEN /\ pc' = "crashed"
                         /\ err' = [exc |-> u.exc, what |-> "unresolved", listed |-> <<>>]
                         /\ UNCHANGED <<grid, pos_map, plots, dead>>
                    ELSE /\ grid' = g.grid
                         /\ pos_map' = g.pos_map
                         /\ pc' = "loop"
                         /\ dead' = (g.exc = "ValueError")
                         /\ plots' = IF g.exc = "" THEN plots + 1 ELSE plots
                         /\ err' = err
    /\ UNCHANGED <<ncell, numsim, driver, cellrule, envattrs, simrule, ret>>

\* main returns: the loop ran num_sim times or broke.
MainReturn ==
    /\ driver = "sim"
    /\ pc \in {"constructed", "loop"}
    /\ iter = numsim \/ dead
    /\ pc' = "returned"
    /\ ret' = main_return(dead)
    /\ UNCHANGED <<ncell, numsim, driver, cells, clock, grid, pos_map, cellrule, envattrs,
                   simrule, iter, plots, dead, err, last, ncontinue>>

\* A caller's Cell().
CellInit ==
    /\ driver = "none"
    /\ \E c \in NewCells : cells' = <<c>>
    /\ driver' = "cell"
    /\ pc' = "ready"
    /\ UNCHANGED <<ncell, numsim, clock, grid, pos_map, cellrule, envattrs, simrule,
                   iter, plots, dead, ret, err, last, ncontinue>>

\* A caller's c.move().
CellMove ==
    /\ driver = "cell"
    /\ cells' = <<move(cells[1])>>
    /\ UNCHANGED <<ncell, numsim, driver, pc, clock, grid, pos_map, cellrule, envattrs,
                   simrule, iter, plots, dead, ret, err, last, ncontinue>>

\* A caller's c.update_sensors(t, pos_map).
CellUpdateSensors ==
    /\ driver = "cell"
    /\ \E t \in 0 .. MaxClock, r \in RandTenths : cells' = <<update_sensors(cells[1], t, r)>>
    /\ UNCHANGED <<ncell, numsim, driver, pc, clock, grid, pos_map, cellrule, envattrs,
                   simrule, iter, plots, dead, ret, err, last, ncontinue>>

\* A caller's c.think().
CellThink ==
    /\ driver = "cell"
    /\ cells' = <<think(cells[1])>>
    /\ UNCHANGED <<ncell, numsim, driver, pc, clock, grid, pos_map, cellrule, envattrs,
                   simrule, iter, plots, dead, ret, err, last, ncontinue>>

\* A caller's c.live(t, pos_map).
CellLive ==
    /\ driver = "cell"
    /\ cells[1].age < MaxAge
    /\ \E t \in 0 .. MaxClock, r \in RandTenths : cells' = <<live(cells[1], t, r)>>
    /\ UNCHANGED <<ncell, numsim, driver, pc, clock, grid, pos_map, cellrule, envattrs,
                   simrule, iter, plots, dead, ret, err, last, ncontinue>>

\* An Environment whose cells stand anywhere on the grid; get_grid reads
\* nothing of a cell but its position.
GridCell(p) == Cell(MaxDeathAge, 0, BrainList[1], p)

GridEnvironmentInit ==
    /\ driver = "none"
    /\ \E n \in 0 .. MaxGridCells :
         /\ ncell' = n
         /\ \E ps \in [1 .. n -> Positions] : cells' = [i \in 1 .. n |-> GridCell(ps[i])]
    /\ driver' = "grid"
    /\ pc' = "ready"
    /\ UNCHANGED <<numsim, clock, grid, pos_map, cellrule, envattrs, simrule,
                   iter, plots, dead, ret, err, last, ncontinue>>

\* Between two get_grid() calls a cell has moved to another position.
GridCellMoved ==
    /\ driver = "grid"
    /\ pc \in {"applied", "reapplied"}
    /\ \E i \in 1 .. Len(cells), p \in Positions :
         /\ p # cells[i].pos
         /\ cells' = [cells EXCEPT ![i].pos = p]
    /\ pc' = "changed"
    /\ UNCHANGED <<ncell, numsim, driver, clock, grid, pos_map, cellrule, envattrs, simrule,
                   iter, plots, dead, ret, err, last, ncontinue>>

\* Between two get_grid() calls a cell has left the collection.
GridCellPruned ==
    /\ driver = "grid"
    /\ pc \in {"applied", "reapplied"}
    /\ \E i \in 1 .. Len(cells) :
         cells' = [j \in 1 .. Len(cells) - 1 |-> IF j < i THEN cells[j] ELSE cells[j + 1]]
    /\ pc' = "changed"
    /\ UNCHANGED <<ncell, numsim, driver, clock, grid, pos_map, cellrule, envattrs, simrule,
                   iter, plots, dead, ret, err, last, ncontinue>>

\* e.get_grid() on that Environment.
GridGetGrid ==
    /\ driver = "grid"
    /\ LET g == get_grid(cells)
       IN /\ grid' = g.grid
          /\ pos_map' = g.pos_map
          /\ last' = [op |-> "get_grid", ret |-> None, exc |-> g.exc, calls |-> <<>>,
                      pm |-> Passed(<<>>, pos_map)]
    /\ pc' = IF pc = "changed" THEN "reapplied" ELSE "applied"
    /\ UNCHANGED <<ncell, numsim, driver, cells, clock, cellrule, envattrs, simrule,
                   iter, plots, dead, ret, err, ncontinue>>

Next ==
    \/ EnvironmentInit
    \/ EnvUpdate
    \/ EnvGetGrid
    \/ EnvPlotgrid
    \/ \E wsim \in WantedNames, wcell \in WantedNames : SimulationInit(wsim, wcell)
    \/ MainIteration
    \/ MainReturn

Spec == Init /\ [][Next]_vars

\* main is one sequential loop: a turn that can run does run, and a loop that
\* is over returns.
SpecMain == Spec /\ WF_vars(MainIteration) /\ WF_vars(MainReturn)

NextCell ==
    \/ CellInit
    \/ CellMove
    \/ CellUpdateSensors
    \/ CellThink
    \/ CellLive

\* A Cell on its own, its four operations called in any order.
SpecCell == Init /\ [][NextCell]_vars

\* The arguments of move(): a cell at any position, with any velocity and
\* any 0/1 action vector.
MoveArgs ==
    {[Cell(MaxDeathAge, v, BrainList[1], p) EXCEPT !.actions = a] :
        v \in Velocities, p \in Positions, a \in [1 .. NumActions -> {0, 1}]}

\* The arguments of think(): a cell with any weight matrix of BrainList and
\* any sensor vector over -MaxSensor .. MaxSensor, at any position.
ThinkArgs ==
    {[Cell(MaxDeathAge, 0, BrainList[b], p) EXCEPT !.sensors = s] :
        b \in 1 .. Len(BrainList), p \in Positions,
        s \in [1 .. NumSensors -> (0 - MaxSensor) .. MaxSensor]}

OpsMoveArg ==
    /\ driver = "none"
    /\ \E c \in MoveArgs : cells' = <<c>>
    /\ driver' = "ops"
    /\ pc' = "move_arg"
    /\ UNCHANGED <<ncell, numsim, clock, grid, pos_map, cellrule, envattrs, simrule,
                   iter, plots, dead, ret, err, last, ncontinue>>

OpsThinkArg ==
    /\ driver = "none"
    /\ \E c \in ThinkArgs : cells' = <<c>>
    /\ driver' = "ops"
    /\ pc' = "think_arg"
    /\ UNCHANGED <<ncell, numsim, clock, grid, pos_map, cellrule, envattrs, simrule,
                   iter, plots, dead, ret, err, last, ncontinue>>

\* c.move() on the drawn cell.
OpsMove ==
    /\ driver = "ops"
    /\ pc = "move_arg"
    /\ cells' = <<move(cells[1])>>
    /\ pc' = "moved"
    /\ UNCHANGED <<ncell, numsim, driver, clock, grid, pos_map, cellrule, envattrs,
                   simrule, iter, plots, dead, ret, err, last, ncontinue>>

\* c.think() on the drawn cell.
OpsThink ==
    /\ driver = "ops"
    /\ pc = "think_arg"
    /\ cells' = <<think(cells[1])>>
    /\ pc' = "thought"
    /\ UNCHANGED <<ncell, numsim, driver, clock, grid, pos_map, cellrule, envattrs,
                   simrule, iter, plots, dead, ret, err, last, ncontinue>>

NextOps ==
    \/ OpsMoveArg
    \/ OpsThinkArg
    \/ OpsMove
    \/ OpsThink

\* move() and think() as functions of their arguments.
SpecOps == Init /\ [][NextOps]_vars

NextGrid ==
    \/ GridEnvironmentInit
    \/ GridCellMoved
    \/ GridCellPruned
    \/ GridGetGrid

\* get_grid() on populations of several cells, before and after a change.
SpecGrid == Init /\ [][NextGrid]_vars

NextLive ==
    \/ CellInit
    \/ CellLive
    \/ CellThink

\* A Cell driven as a tick drives it: live() once a tick, and the think()
\* that update() broadcasts after it.
SpecLive == Init /\ [][NextLive]_vars

----------------------------------------------------------------------------
(* Properties *)

InGrid(p) == p[1] \in 0 .. GridSize - 1 /\ p[2] \in 0 .. GridSize - 1

\* C1: every cell's position has both coordinates in 0 .. grid_size - 1, at
\* creation and after any number of move() calls, whatever its actions and
\* velocity.
C1_PosInGrid == \A i \in 1 .. Len(cells) : InGrid(cells[i].pos)

\* A cell that has moved with its tick, stands on the border and whose
\* actions and velocity push it across: the next move() has to clamp.
C1_Witness ==
    /\ driver = "cell"
    /\ \E i \in 1 .. Len(cells) :
         /\ cells[i].age >= 1
         /\ ~InGrid(move_unclamped(cells[i]).pos)

\* C2: over any sequence of steps of a cell, age never decreases and alive
\* never turns from false to true; in a live() step of a living cell, alive
\* turns false exactly when age >= death_age holds after the step, and no
\* other step turns it false.
C2_AgeAndAlive ==
    [][\A i \in 1 .. Len(cells) :
         Len(cells') = Len(cells) =>
           /\ cells'[i].age >= cells[i].age
           /\ ~cells[i].alive => ~cells'[i].alive
           /\ (cells[i].alive /\ cells'[i].age # cells[i].age) =>
                (~cells'[i].alive <=> 2 * cells'[i].age >= cells'[i].death_age)
           /\ (cells[i].alive /\ cells'[i].age = cells[i].age) => cells'[i].alive]_vars

\* A cell of death age 1.5 that lived its first tick and died in its second.
C2_Witness ==
    /\ driver = "cell"
    /\ \E i \in 1 .. Len(cells) :
         ~cells[i].alive /\ cells[i].age = 2 /\ cells[i].death_age = 3

\* A step that runs Environment.update(): a caller's, or main's through the
\* default simulation rule.
UpdateStep ==
    \/ EnvUpdate
    \/ MainIteration /\ simrule = "default" /\ last'.op = "simrule"

\* C3: update() on an empty collection returns 0, leaves clock and cells as
\* they were and makes no broadcast.
C3_UpdateOnEmpty ==
    [][(UpdateStep /\ cells = <<>>) =>
         /\ last'.ret = Ended
         /\ last'.exc = ""
         /\ last'.calls = <<>>
         /\ clock' = clock
         /\ cells' = cells]_vars

\* update() has run on an Environment without cells.
C3_Witness ==
    /\ driver = "env"
    /\ ncell = 0
    /\ last.op = "update"
    /\ last.ret = Ended

AllDue(cs) == \A i \in 1 .. Len(cs) : cs[i].death_age <= 2 * (cs[i].age + 1)

\* C4: update() on a non-empty population whose every cell has
\* death_age <= age + 1 returns 1 and leaves the collection empty (and the
\* update() after it returns 0).
C4_AllDueTick ==
    [][/\ (EnvUpdate /\ cells # <<>> /\ AllDue(cells)) =>
            (last'.ret = Continue /\ cells' = <<>>)
       /\ (EnvUpdate /\ cells = <<>>) => last'.ret = Ended]_vars

\* C5: Simulation(wsim, wcell) with a name that is in neither registry
\* raises at once, the message lists every name of the registry that was
\* searched, and no tick runs afterwards.
C5_UnknownRuleFails ==
    [][/\ \A wsim \in WantedNames, wcell \in WantedNames :
            (/\ SimulationInit(wsim, wcell)
             /\ wsim \notin Range(SimRuleNames) \/ wcell \notin Range(CellRuleNames)) =>
              /\ pc' = "failed"
              /\ err'.exc = "AttributeError"
              /\ err'.listed = IF wsim \notin Range(SimRuleNames)
                               THEN SimRuleNames ELSE CellRuleNames
       /\ pc = "failed" => UNCHANGED vars]_vars

\* The cell rule was not found: the error lists the cell registry.
C5_Witness ==
    /\ pc = "failed"
    /\ err.what = "cellrule"
    /\ err.listed = CellRuleNames
    /\ iter = 0

\* C6: Simulation(wsim, wcell) with two registered names succeeds for any
\* n_cell >= 0, with the simulation rule bound on the Environment.
C6_RegisteredNamesConstruct ==
    [][\A wsim \in Range(SimRuleNames), wcell \in Range(CellRuleNames) :
         SimulationInit(wsim, wcell) =>
           (pc' = "constructed" /\ err' = NoError /\ wsim \in envattrs')]_vars

\* C7 as stated: a run ended early by a caught fault returns a value other
\* than the one a run that completed its num_sim iterations returns.
C7_EarlyEndDistinct == (pc = "returned" /\ dead) => ret # main_return(FALSE)

\* C7 amended: main returns 0 in both cases; the early end shows only in the
\* "Dead" diagnostic, printed exactly when the last iteration begun did not
\* reach the renderer.
C7_ReturnsZeroBothWays ==
    pc = "returned" => (ret = MainStatus /\ (dead <=> plots < iter))

\* main has returned from a loop it broke out of.
C7_Witness == pc = "returned" /\ dead /\ iter >= 1

\* C8: an iteration of main whose simulation rule leaves the collection
\* empty catches the fault itself: "Dead" is printed, plotgrid is not called,
\* and from then on no iteration runs and no exception leaves main.
C8_ExtinctionCaught ==
    [][/\ (MainIteration /\ last'.op = "simrule" /\ last'.exc = "" /\ cells' = <<>>) =>
            (dead' /\ plots' = plots /\ pc' = "loop" /\ err' = NoError)
       /\ (driver = "sim" /\ dead) =>
            (iter' = iter /\ plots' = plots /\ pc' \in {"loop", "returned"} /\ err' = NoError)]_vars

\* main broke out of its first iteration with another one still to run, and
\* returned.
C8_Witness ==
    pc = "returned" /\ dead /\ iter = 1 /\ plots = 0 /\ numsim >= 2 /\ ret = MainStatus

\* C9: once Simulation.__init__ has completed, neither main's lookup of the
\* simulation rule on the Environment nor a broadcast of update() fails on a
\* name that does not resolve.
C9_NoUnresolvedMidRun ==
    (driver = "sim" /\ pc # "failed") =>
        (pc # "crashed" /\ err.what # "unresolved" /\ last.exc # "AttributeError")

\* An iteration of main has looked the simulation rule up and run it.
C9_Witness == driver = "sim" /\ iter >= 1 /\ last.op = "simrule" /\ last.exc = ""

\* C10: the clock is 0 at construction and always equals the number of
\* update() calls that returned 1; get_grid and plotgrid leave it alone.
C10_ClockCountsTicks == clock >= 0 /\ clock = ncontinue

\* update() has run on a population and has not returned 1: the clock is
\* still 0.
C10_Witness ==
    /\ driver = "env"
    /\ cells # <<>>
    /\ last.op = "update"
    /\ last.ret # Continue
    /\ clock = 0

SameGenome(c, d) ==
    c.death_age = d.death_age /\ c.velocity = d.velocity /\ c.brain_dna = d.brain_dna

\* cs is drawn from ds in order: no cell added, none reordered.
IsSubSeq(cs, ds) ==
    \E f \in [1 .. Len(cs) -> 1 .. Len(ds)] :
        /\ \A j \in 1 .. Len(cs) : SameGenome(cs[j], ds[f[j]])
        /\ \A j, k \in 1 .. Len(cs) : j < k => f[j] < f[k]

RECURSIVE SumOver(_, _)
SumOver(g, S) ==
    IF S = {} THEN 0
    ELSE LET p == CHOOSE q \in S : TRUE IN g[p] + SumOver(g, S \ {p})

GridDone == driver = "grid" /\ pc \in {"applied", "reapplied"}

\* C12: after get_grid() on any collection, the empty one included, every
\* entry of the grid is 0 or 1 and the sum of the grid is at most the number
\* of cells and at most grid_size^2.
C12_GridBounded ==
    GridDone =>
        /\ \A p \in Positions : grid[p] \in {0, 1}
        /\ SumOver(grid, Positions) <= Len(cells)
        /\ SumOver(grid, Positions) <= GridSize * GridSize

\* get_grid() has run on a collection that lost its last cell: it raised, and
\* the grid is zeroed all the same.
C12_Witness ==
    /\ GridDone
    /\ ncell >= 1
    /\ cells = <<>>
    /\ last.exc = "ValueError"
    /\ SumOver(grid, Positions) = 0

\* C13: after get_grid() on a non-empty collection, grid[x][y] is 1 exactly
\* when a cell stands on (x, y) and 0 otherwise: no marker of an earlier call
\* persists and cells on one coordinate leave one marker.
C13_GridMarksCells ==
    (GridDone /\ cells # <<>>) =>
        \A p \in Positions :
            grid[p] = IF p \in {cells[i].pos : i \in 1 .. Len(cells)} THEN 1 ELSE 0

\* No cell was pruned, one has moved onto the position of another since the
\* get_grid() before: two markers have become one.
C13_Witness ==
    /\ driver = "grid"
    /\ pc = "reapplied"
    /\ ncell = 2
    /\ Len(cells) = 2
    /\ cells[1].pos = cells[2].pos
    /\ SumOver(grid, Positions) = 1

\* C14: in every tick, the first after construction included, the pos_map
\* that update() passes to the cell-rule broadcast is a list with one [x, y]
\* pair per cell of the collection, each the position of that cell before
\* any cell moves in the tick.
C14_SnapshotPerTick ==
    [][(UpdateStep /\ cells # <<>>) =>
         /\ last'.calls # <<>>
         /\ last'.pm.list
         /\ last'.pm.pairs = PosMap(cells)]_vars

C16_MoveClamped ==
    [][(driver = "ops" /\ pc = "move_arg" /\ pc' = "moved") =>
         LET c == cells[1]
             a == c.actions
             d == cells'[1]
         IN /\ d.pos[1] = Min(Max(c.pos[1] + c.velocity * (a[1] - a[3]), 0), GridSize - 1)
            /\ d.pos[2] = Min(Max(c.pos[2] + c.velocity * (a[2] - a[4]), 0), GridSize - 1)
            /\ a[1] = a[3] => d.pos[1] = c.pos[1]
            /\ a[2] = a[4] => d.pos[2] = c.pos[2]]_vars

\* move() has run with both actions of the x axis set, one action of the y
\* axis set and a velocity other than 0.
C16_Witness ==
    /\ driver = "ops"
    /\ pc = "moved"
    /\ cells[1].actions[1] = 1
    /\ cells[1].actions[3] = 1
    /\ cells[1].actions[2] # cells[1].actions[4]
    /\ cells[1].velocity # 0

MainOver == pc \in {"returned", "failed", "crashed"}

\* C17: main ends after at most num_sim turns of its loop; a turn runs the
\* simulation rule, then get_grid, then plotgrid, and plotgrid is called at
\* most once in a turn and only when the rule and get_grid both completed
\* without a fault, on the grid get_grid built from the cells the rule left.
C17_MainBounded ==
    /\ [](driver = "sim" => (iter <= numsim /\ plots <= iter))
    /\ [][MainIteration =>
            /\ iter' = iter + 1
            /\ plots' \in {plots, plots + 1}
            /\ plots' = plots + 1 =>
                 /\ last'.op = "simrule"
                 /\ last'.exc = ""
                 /\ cells' # <<>>
                 /\ grid' = Marked(PosMap(cells'))]_vars
    /\ [][(driver = "sim" /\ MainOver) => UNCHANGED vars]_vars
    /\ (driver = "sim") ~> MainOver

\* main has returned after as many turns as num_sim allows.
C17_Witness == pc = "returned" /\ numsim >= 1 /\ iter = numsim

TicksToLive(d) == Max(1, (d + 1) \div 2)

Outlives(c) == TicksToLive(c.death_age) > c.age + 1

\* C19: a cell of death age d leaves the collection at the end of its
\* max(1, ceil(d))-th tick, a cell created with d <= 0 at the end of the
\* first: an update() on a population keeps exactly the cells whose last tick
\* is still to come, each a tick older.
C19_PrunedOnSchedule ==
    [][(UpdateStep /\ cells # <<>>) =>
         LET keep == SelectSeq(cells, Outlives)
         IN /\ Len(cells') = Len(keep)
            /\ \A j \in 1 .. Len(keep) :
                 /\ SameGenome(cells'[j], keep[j])
                 /\ cells'[j].age = keep[j].age + 1]_vars

\* C20: a cell's first live() leaves it where it was created, and every
\* later live() moves it by the actions that think() derived from the
\* sensors of the tick before, not from the sensors live() is about to read.
C20_MovesOnOldActions ==
    [][(driver = "cell" /\ Len(cells) = 1 /\ cells'[1].age = cells[1].age + 1) =>
         LET c == cells[1]
             a == [k \in 1 .. NumActions |->
                     IF Dot(c.brain_dna[k], c.sensors) > 0 THEN 1 ELSE 0]
         IN /\ c.age = 0 => cells'[1].pos = c.pos
            /\ cells'[1].pos = <<Clamp(c.pos[1] + (a[1] - a[3]) * c.velocity),
                                 Clamp(c.pos[2] + (a[2] - a[4]) * c.velocity)>>]_vars

\* A cell with a velocity has lived two ticks and the first left it with an
\* action set: the second tick moved on it.
C20_Witness ==
    /\ driver = "cell"
    /\ cells[1].age = 2
    /\ cells[1].velocity # 0
    /\ cells[1].actions # Zeros(NumActions)

====
